---- MODULE Spec2Model ----
(***************************************************************************)
(* Model of PIT.py: the registration workflow (start, check_subscription,  *)
(* handle_contact), the enrollment store (UserManager over the sqlite      *)
(* table users) and the lead sink (GoogleSheetsManager).                   *)
(*                                                                         *)
(* A handler runs atomically between two awaits; a handler suspended at an *)
(* await is a record in tasks.  Every call on the store opens its own      *)
(* connection, which may fail: each call draws its own dbok.               *)
(*                                                                         *)
(* Spec is the registration workflow and BSpec the broadcast workflow next *)
(* to it; both let suspended handlers interleave at their awaits, which is *)
(* all that any dispatch of the updates can do.  SeqSpec dispatches the    *)
(* updates as the application built in main does, and BootSpec is the      *)
(* start of the process up to main.  A call on the gateway fails in the    *)
(* model where the code catches the failure.                               *)
(***************************************************************************)
EXTENDS Integers, Sequences, FiniteSets, Bags, TLC

\* ---------------------------------------------------------------- bounds
MaxEvents == 3
MaxUpdates == 2

\* ------------------------------------------------------------ the inputs
\* Telegram identities: 42 and 10042 are congruent modulo 10000
Users == {42, 10042}
\* the identities of the broadcast runs: one more, enrolled in an earlier run
AllUsers == Users \cup {777}
\* contact.user_id of a contact card that is no Telegram user (None)
NoUserId == 0
\* user.username is set for some identities and None for the others
HasUsername(u) == u < 10000
\* contact.phone_number as the client sends it
RawPhones == {<<"7">>, <<"+", "7">>, <<"8">>}
\* ChatMember.status values of the gateway
Statuses == {"member", "administrator", "creator", "left", "kicked"}
ADMIN_CHAT_ID == 42
\* an absent coupon (get_user_coupon returning None)
None == << >>

VARIABLES
    users,         \* rows of the table users
    sheet,         \* rows appended to the spreadsheet
    is_connected,  \* GoogleSheetsManager.is_connected
    tasks,         \* the bag of handlers suspended at an await
    events,        \* the number of updates the gateway has delivered, the clock
    confirmed,     \* identities the gateway has reported as subscribed
    firstCoupon,   \* the coupon_code of the first row written per identity
    ev,            \* the handler step taken last
    out,           \* the messages that step sent through the gateway
    conv,          \* the state of broadcast_conv per identity
    context_user_data,  \* context.user_data per identity
    job,           \* the locals of the running or last broadcast_confirm
    boot           \* the start of the process: environment and position

bvars == <<conv, context_user_data, job, boot>>
vars == <<users, sheet, is_connected, tasks, events, confirmed, firstCoupon, ev, out,
          conv, context_user_data, job, boot>>

\* ------------------------------------------------------- coupon issuing
DigitChars == <<"0", "1", "2", "3", "4", "5", "6", "7", "8", "9">>

RECURSIVE ToDigits(_)
ToDigits(n) == IF n < 10 THEN <<DigitChars[n + 1]>>
               ELSE Append(ToDigits(n \div 10), DigitChars[(n % 10) + 1])

RECURSIVE ZeroPad(_, _)
ZeroPad(s, width) == IF Len(s) >= width THEN s ELSE ZeroPad(<<"0">> \o s, width)

\* the format specification 04d
Format04dUnpadded(n) == ToDigits(n)
Format04d(n) == ZeroPad(ToDigits(n), 4)

\* f"PIT-{user.id % 10000:04d}-15"
CouponCode(user_id) ==
    <<"P", "I", "T", "-">> \o Format04d(user_id % 10000) \o <<"-", "1", "5">>

\* ------------------------------------------------------ enrollment store
RowsOf(tbl, user_id) == {r \in tbl : r.user_id = user_id}
HasRow(tbl, user_id) == RowsOf(tbl, user_id) # {}

\* INSERT OR REPLACE under user_id PRIMARY KEY and phone UNIQUE: the rows in
\* conflict with the new one on either key are deleted, then it is inserted
InsertOrReplaceKeepPk(tbl, row) ==
    {r \in tbl : r.phone # row.phone} \cup {row}
InsertPlain(tbl, row) == tbl \cup {row}
InsertOrReplace(tbl, row) ==
    {r \in tbl : r.user_id # row.user_id /\ r.phone # row.phone} \cup {row}

is_user_registered(tbl, user_id, dbok) == dbok /\ HasRow(tbl, user_id)

get_user_coupon(tbl, user_id, dbok) ==
    IF dbok /\ HasRow(tbl, user_id)
    THEN (CHOOSE r \in RowsOf(tbl, user_id) : TRUE).coupon_code
    ELSE None

register_user(tbl, user_data, dbok, t) ==
    IF dbok
    THEN [ok |-> TRUE,
          users |-> InsertOrReplace(tbl, [user_id |-> user_data.user_id,
                                          phone |-> user_data.phone,
                                          registered_at |-> t,
                                          coupon_code |-> user_data.coupon])]
    ELSE [ok |-> FALSE, users |-> tbl]

get_stats(tbl, dbok) == IF dbok THEN Cardinality(tbl) ELSE 0

\* ------------------------------------------------------------- lead sink
add_leadUnchecked(connected, sh, data, appendOk) ==
    IF appendOk
    THEN [ok |-> TRUE, how |-> "appended",
          sheet |-> Append(sh, [user_id |-> data.user_id, phone |-> data.phone,
                                coupon |-> data.coupon])]
    ELSE [ok |-> FALSE, how |-> "raised", sheet |-> sh]
add_lead(connected, sh, data, appendOk) ==
    IF ~connected
    THEN [ok |-> FALSE, how |-> "skipped", sheet |-> sh]
    ELSE IF appendOk
    THEN [ok |-> TRUE, how |-> "appended",
          sheet |-> Append(sh, [user_id |-> data.user_id, phone |-> data.phone,
                                coupon |-> data.coupon])]
    ELSE [ok |-> FALSE, how |-> "raised", sheet |-> sh]

\* ------------------------------------------------------- handler helpers
\* send_photo_with_caption sends the caption, with the photo or as a text
send_photo_with_caption(to, kind, coupon) ==
    [to |-> to, kind |-> kind, coupon |-> coupon, shows |-> {}, total |-> 0]

NormalizePhoneRaw(phone_number) == phone_number
NormalizePhone(phone_number) ==
    IF Len(phone_number) > 0 /\ phone_number[1] = "+"
    THEN phone_number
    ELSE <<"+">> \o phone_number

ContactIsAnyones(contact_user_id, user_id) == TRUE
ContactIsOwn(contact_user_id, user_id) == contact_user_id = user_id

\* the branch "if local_registration:" of handle_contact
CouponOnEither(local_registration, sheets_success) ==
    local_registration \/ sheets_success
CouponGranted(local_registration, sheets_success) == local_registration

Msg(to, kind, coupon) ==
    [to |-> to, kind |-> kind, coupon |-> coupon, shows |-> {}, total |-> 0]

\* admin_message: the conditional expression takes the whole concatenation
\* before "if" when user.username is set and the whole one after "else"
\* otherwise; get_stats is called only in the second
AdminMessage(user_id, coupon, total) ==
    IF HasUsername(user_id)
    THEN [to |-> ADMIN_CHAT_ID, kind |-> "new_lead", coupon |-> None,
          shows |-> {"name", "phone", "handle"}, total |-> 0]
    ELSE [to |-> ADMIN_CHAT_ID, kind |-> "new_lead", coupon |-> coupon,
          shows |-> {"handle", "identity", "coupon", "sheets", "total"},
          total |-> total]

Task(h, user_id, pc, sheets_success) ==
    [h |-> h, user |-> user_id, pc |-> pc, sheets |-> sheets_success]
Suspend(t) == tasks (+) SetToBag({t})
Resume(t) == tasks (-) SetToBag({t})
Suspended == BagToSet(tasks)

\* datetime.now(): updates arrive one after the other
now == events

Event(h, user_id, enrolled, contact_user_id, reg, lead) ==
    [h |-> h, user |-> user_id, enrolled |-> enrolled, cu |-> contact_user_id,
     reg |-> reg, lead |-> lead]

\* ------------------------------------------------------------- broadcast
\* the states of broadcast_conv: range(2) and ConversationHandler.END
BROADCAST_TEXT == 0
BROADCAST_PHOTO == 1
END == -1

\* an empty context.user_data
NoData == [broadcast_type |-> "unset", broadcast_text |-> "unset",
           broadcast_photo |-> "unset"]
\* dict.get(key, default)
DictGet(d, key, default) == IF d[key] = "unset" THEN default ELSE d[key]

\* str(user.id) != ADMIN_CHAT_ID, the environment holding the decimal digits
IsAnyone(user_id) == TRUE
IsAdmin(user_id) == ToDigits(user_id) = ToDigits(ADMIN_CHAT_ID)

\* ReplyKeyboardRemove is used by broadcast_text and broadcast_cancel but is
\* not among the names imported from telegram: evaluating it raises NameError
ReplyKeyboardRemoveImported == FALSE

\* SELECT user_id FROM users: sqlite scans the covering index of the UNIQUE
\* column phone, (phone, rowid), so the rows come in the order of the text phone
CharRank(ch) == IF ch = "+" THEN 0 ELSE CHOOSE d \in 1..10 : DigitChars[d] = ch
RECURSIVE TextLess(_, _)
TextLess(a, b) ==
    IF a = << >> THEN b # << >>
    ELSE IF b = << >> THEN FALSE
    ELSE IF Head(a) = Head(b) THEN TextLess(Tail(a), Tail(b))
    ELSE CharRank(Head(a)) < CharRank(Head(b))
RECURSIVE InIndexOrder(_)
InIndexOrder(rows) ==
    IF rows = {} THEN << >>
    ELSE LET first == CHOOSE r \in rows :
                        \A q \in rows : q = r \/ TextLess(r.phone, q.phone)
         IN <<first.user_id>> \o InIndexOrder(rows \ {first})
get_all_users(tbl, dbok) == IF dbok THEN InIndexOrder(tbl) ELSE << >>

NoJob == [pc |-> "idle", by |-> NoUserId, broadcast_type |-> "text",
          broadcast_text |-> "", broadcast_photo |-> "none", users |-> << >>,
          i |-> 0, success_count |-> 0, fail_count |-> 0, log |-> << >>,
          edits |-> {}, percent |-> 0]

\* round(success_count/total_users*100, 1) if total_users > 0 else 0, in tenths
\* of a percent; round takes the nearest tenth, the even one at a tie
RoundHalfEven(n, d) ==
    LET q == n \div d
        r == n % d
    IN IF 2 * r < d THEN q
       ELSE IF 2 * r > d THEN q + 1
       ELSE IF q % 2 = 0 THEN q ELSE q + 1
PercentTruncated(success_count, total_users) ==
    IF total_users > 0 THEN (success_count * 1000) \div total_users ELSE 0
Percent(success_count, total_users) ==
    IF total_users > 0 THEN RoundHalfEven(success_count * 1000, total_users) ELSE 0

\* i % 10 == 0 or i == total_users
ProgressDue(i, total_users) == i % 10 = 0 \/ i = total_users

\* ------------------------------------------------------------------ start
\* required_vars of main
RequiredVarsShort == <<"BOT_TOKEN", "CHANNEL_USERNAME", "SPREADSHEET_URL">>
RequiredVars == <<"BOT_TOKEN", "CHANNEL_USERNAME", "ADMIN_CHAT_ID", "SPREADSHEET_URL">>
Range(f) == {f[i] : i \in DOMAIN f}
\* [var for var in required_vars if not os.getenv(var)]
RECURSIVE MissingVars(_, _)
MissingVars(required, env) ==
    IF required = << >> THEN << >>
    ELSE (IF Head(required) \in env THEN << >> ELSE <<Head(required)>>)
         \o MissingVars(Tail(required), env)

\* the process once application.run_polling() runs
Booted == [pc |-> "polling", env |-> Range(RequiredVars), credentials |-> TRUE,
           missing |-> << >>, gateway |-> TRUE]

\* ------------------------------------------------------------------ Init
Init ==
    /\ users = {}
    /\ sheet = << >>
    /\ is_connected \in BOOLEAN
    /\ tasks = EmptyBag
    /\ events = 0
    /\ confirmed = {}
    /\ firstCoupon = [u \in AllUsers |-> None]
    /\ ev = Event("init", NoUserId, FALSE, NoUserId, "none", "none")
    /\ out = {}
    /\ conv = [u \in AllUsers |-> END]
    /\ context_user_data = [u \in AllUsers |-> NoData]
    /\ job = NoJob
    /\ boot = Booted

\* --------------------------------------------------------------- actions
\* the test all three handlers start with: the stored coupon is shown
ShowExisting(u) ==
    \E dbok \in BOOLEAN :
      out' = {Msg(u, "existing_coupon", get_user_coupon(users, u, dbok))}

\* start
Start(u) ==
    /\ events < MaxEvents
    /\ events' = events + 1
    /\ \E ok1 \in BOOLEAN :
         IF is_user_registered(users, u, ok1)
         THEN ShowExisting(u)
         ELSE out' = {send_photo_with_caption(u, "welcome", None)}
    /\ ev' = Event("start", u, HasRow(users, u), NoUserId, "none", "none")
    /\ UNCHANGED <<users, sheet, is_connected, tasks, confirmed, firstCoupon>>
    /\ UNCHANGED bvars

\* check_subscription up to "await query.answer()"
CheckSubscription(u) ==
    /\ events < MaxEvents
    /\ events' = events + 1
    /\ tasks' = Suspend(Task("check_subscription", u, "answered", FALSE))
    /\ ev' = Event("cs_answer", u, HasRow(users, u), NoUserId, "none", "none")
    /\ out' = {}
    /\ UNCHANGED <<users, sheet, is_connected, confirmed, firstCoupon>>
    /\ UNCHANGED bvars

\* check_subscription from the is_user_registered test to
\* "await context.bot.get_chat_member"
CheckSubscriptionLookup(t) ==
    /\ t.h = "check_subscription" /\ t.pc = "answered"
    /\ \E ok1 \in BOOLEAN :
         IF is_user_registered(users, t.user, ok1)
         THEN /\ ShowExisting(t.user)
              /\ tasks' = Resume(t)
         ELSE /\ out' = {}
              /\ tasks' = Resume(t) (+) SetToBag({[t EXCEPT !.pc = "querying"]})
    /\ ev' = Event("check_subscription", t.user, HasRow(users, t.user), NoUserId,
                   "none", "none")
    /\ UNCHANGED <<users, sheet, is_connected, events, confirmed, firstCoupon>>
    /\ UNCHANGED bvars

\* check_subscription from the answer of get_chat_member to its end
CheckSubscriptionResult(t) ==
    /\ t.h = "check_subscription" /\ t.pc = "querying"
    /\ \E status \in Statuses \cup {"error"} :
         /\ IF status = "error"
            THEN /\ out' = {Msg(t.user, "check_failed", None)}
                 /\ UNCHANGED confirmed
            ELSE IF status \in {"member", "administrator", "creator"}
            THEN /\ out' = {Msg(t.user, "subscribed", None),
                            Msg(t.user, "share_contact", None)}
                 /\ confirmed' = confirmed \cup {t.user}
            ELSE /\ out' = {Msg(t.user, "not_subscribed", None)}
                 /\ UNCHANGED confirmed
         /\ ev' = Event("cs_result", t.user, HasRow(users, t.user), NoUserId,
                        status, "none")
    /\ tasks' = Resume(t)
    /\ UNCHANGED <<users, sheet, is_connected, events, firstCoupon>>
    /\ UNCHANGED bvars

\* handle_contact up to the end of "await send_photo_with_caption"
HandleContact(u, cu, raw) ==
    /\ events < MaxEvents
    /\ events' = events + 1
    /\ \E ok1 \in BOOLEAN :
         IF is_user_registered(users, u, ok1)
         THEN /\ ShowExisting(u)
              /\ ev' = Event("handle_contact", u, HasRow(users, u), cu, "none", "none")
              /\ UNCHANGED <<users, sheet, tasks, firstCoupon>>
         ELSE IF ContactIsOwn(cu, u)
         THEN \E okw, appendOk \in BOOLEAN :
              LET phone_number == NormalizePhone(raw)
                  coupon_code == CouponCode(u)
                  user_data == [user_id |-> u, phone |-> phone_number,
                                coupon |-> coupon_code]
                  local_registration == register_user(users, user_data, okw, now)
                  sheets_success == add_lead(is_connected, sheet, user_data, appendOk)
              IN /\ users' = local_registration.users
                 /\ firstCoupon' =
                      IF local_registration.ok /\ firstCoupon[u] = None
                      THEN [firstCoupon EXCEPT ![u] = coupon_code]
                      ELSE firstCoupon
                 /\ sheet' = sheets_success.sheet
                 /\ ev' = Event("handle_contact", u, HasRow(users, u), cu,
                                IF local_registration.ok THEN "ok" ELSE "failed",
                                sheets_success.how)
                 /\ IF CouponGranted(local_registration.ok, sheets_success.ok)
                    THEN /\ out' = {send_photo_with_caption(u, "coupon", coupon_code)}
                         /\ tasks' = Suspend(Task("handle_contact", u, "notify",
                                                  sheets_success.ok))
                    ELSE /\ out' = {Msg(u, "retry_later", None)}
                         /\ UNCHANGED tasks
         ELSE /\ out' = {Msg(u, "own_number_please", None)}
              /\ ev' = Event("handle_contact", u, HasRow(users, u), cu, "none", "none")
              /\ UNCHANGED <<users, sheet, tasks, firstCoupon>>
    /\ UNCHANGED <<is_connected, confirmed>>
    /\ UNCHANGED bvars

\* handle_contact from the admin_message to its end
HandleContactNotify(t) ==
    /\ t.h = "handle_contact" /\ t.pc = "notify"
    /\ \E dbok \in BOOLEAN :
         out' = {AdminMessage(t.user, CouponCode(t.user), get_stats(users, dbok))}
    /\ ev' = Event("hc_notify", t.user, HasRow(users, t.user), t.user, "none", "none")
    /\ tasks' = Resume(t)
    /\ UNCHANGED <<users, sheet, is_connected, events, confirmed, firstCoupon>>
    /\ UNCHANGED bvars

Next ==
    \/ \E u \in Users : Start(u)
    \/ \E u \in Users : CheckSubscription(u)
    \/ \E t \in Suspended : CheckSubscriptionLookup(t)
    \/ \E t \in Suspended : CheckSubscriptionResult(t)
    \/ \E u \in Users, cu \in Users \cup {NoUserId}, raw \in RawPhones :
         HandleContact(u, cu, raw)
    \/ \E t \in Suspended : HandleContactNotify(t)

Spec == Init /\ [][Next]_vars

\* ----------------------------------------------------- broadcast actions
RegUnchanged == UNCHANGED <<users, sheet, is_connected, tasks, confirmed, firstCoupon>>

\* broadcast_start, the entry point of broadcast_conv
BroadcastStart(u) ==
    /\ events < MaxUpdates
    /\ events' = events + 1
    /\ conv[u] = END
    /\ IF ~IsAdmin(u)
       THEN /\ out' = {Msg(u, "admin_only", None)}
            /\ conv' = [conv EXCEPT ![u] = END]
       ELSE /\ out' = {Msg(u, "broadcast_panel", None)}
            /\ conv' = [conv EXCEPT ![u] = BROADCAST_TEXT]
    /\ ev' = Event("broadcast_start", u, HasRow(users, u), NoUserId, "none", "none")
    /\ RegUnchanged
    /\ UNCHANGED <<context_user_data, job, boot>>

\* broadcast_text, the handler of the state BROADCAST_TEXT; a handler that
\* raises leaves the state of the conversation as it was
BroadcastText(u, choice) ==
    /\ events < MaxUpdates
    /\ events' = events + 1
    /\ conv[u] = BROADCAST_TEXT
    /\ IF choice = "cancel"
       THEN IF ReplyKeyboardRemoveImported
            THEN /\ out' = {Msg(u, "broadcast_cancelled", None)}
                 /\ conv' = [conv EXCEPT ![u] = END]
                 /\ UNCHANGED context_user_data
            ELSE /\ out' = {}
                 /\ UNCHANGED <<conv, context_user_data>>
       ELSE IF choice \in {"text", "photo"}
       THEN IF ReplyKeyboardRemoveImported
            THEN /\ out' = {Msg(u, "enter_content", None)}
                 /\ context_user_data' =
                      [context_user_data EXCEPT ![u].broadcast_type = choice]
                 /\ conv' = [conv EXCEPT ![u] = BROADCAST_PHOTO]
            ELSE /\ out' = {}
                 /\ UNCHANGED <<conv, context_user_data>>
       ELSE /\ out' = {Msg(u, "invalid_choice", None)}
            /\ conv' = [conv EXCEPT ![u] = BROADCAST_TEXT]
            /\ UNCHANGED context_user_data
    /\ ev' = Event("broadcast_text", u, HasRow(users, u), NoUserId, choice, "none")
    /\ RegUnchanged
    /\ UNCHANGED <<job, boot>>

\* broadcast_photo, the handler of the state BROADCAST_PHOTO for a text or a
\* photo message; only a return of BROADCAST_PHOTO by broadcast_text leads to
\* that state
BroadcastPhoto(u, message) ==
    /\ events < MaxEvents
    /\ events' = events + 1
    /\ conv[u] = BROADCAST_PHOTO
    /\ IF ~IsAdmin(u)
       THEN /\ out' = {}
            /\ conv' = [conv EXCEPT ![u] = END]
            /\ UNCHANGED context_user_data
       ELSE LET broadcast_type == DictGet(context_user_data[u], "broadcast_type", "text")
            IN IF broadcast_type = "photo" /\ message = "photo"
               THEN \E fileOk \in BOOLEAN :
                      IF fileOk
                      THEN /\ context_user_data' =
                                [context_user_data EXCEPT ![u].broadcast_photo = "file_id"]
                           /\ out' = {Msg(u, "photo_received", None)}
                           /\ conv' = [conv EXCEPT ![u] = BROADCAST_PHOTO]
                      ELSE /\ out' = {Msg(u, "form_error", None)}
                           /\ conv' = [conv EXCEPT ![u] = END]
                           /\ UNCHANGED context_user_data
               ELSE IF message = "text"
               THEN \E dbok \in BOOLEAN :
                      /\ context_user_data' =
                           [context_user_data EXCEPT ![u].broadcast_text = "content"]
                      /\ out' = {[Msg(u, "preview", None) EXCEPT
                                    !.total = Len(get_all_users(users, dbok)),
                                    !.shows =
                                       IF /\ broadcast_type = "photo"
                                          /\ context_user_data[u].broadcast_photo # "unset"
                                       THEN {"photo", "text"} ELSE {"text"}]}
                      /\ conv' = [conv EXCEPT ![u] = END]
               ELSE /\ out' = {Msg(u, "send_text_please", None)}
                    /\ conv' = [conv EXCEPT ![u] = BROADCAST_PHOTO]
                    /\ UNCHANGED context_user_data
    /\ ev' = Event("broadcast_photo", u, HasRow(users, u), NoUserId, message, "none")
    /\ RegUnchanged
    /\ UNCHANGED <<job, boot>>

\* broadcast_cancel, the fallback for /cancel
BroadcastCancel(u) ==
    /\ events < MaxUpdates
    /\ events' = events + 1
    /\ conv[u] # END
    /\ IF ~IsAdmin(u)
       THEN /\ out' = {}
            /\ conv' = [conv EXCEPT ![u] = END]
            /\ UNCHANGED context_user_data
       ELSE /\ context_user_data' = [context_user_data EXCEPT ![u] = NoData]
            /\ IF ReplyKeyboardRemoveImported
               THEN /\ out' = {Msg(u, "broadcast_cancelled", None)}
                    /\ conv' = [conv EXCEPT ![u] = END]
               ELSE /\ out' = {}
                    /\ UNCHANGED conv
    /\ ev' = Event("broadcast_cancel", u, HasRow(users, u), NoUserId, "none", "none")
    /\ RegUnchanged
    /\ UNCHANGED <<job, boot>>

\* broadcast_confirm up to the end of "await context.bot.send_message" for
\* the progress message; it is a fallback of broadcast_conv and a handler of
\* the application, so it gets the callback of every identity in every state
BroadcastConfirm(u, data) ==
    /\ events < MaxUpdates
    /\ events' = events + 1
    /\ IF data = "cancel_broadcast"
       THEN /\ out' = {Msg(u, "broadcast_cancelled", None)}
            /\ conv' = [conv EXCEPT ![u] = END]
            /\ UNCHANGED job
       ELSE /\ job.pc # "sending"
            /\ \E dbok \in BOOLEAN :
                 LET d == context_user_data[u]
                     all_users == get_all_users(users, dbok)
                 IN /\ job' = [NoJob EXCEPT
                                 !.pc = "sending",
                                 !.by = u,
                                 !.broadcast_type = DictGet(d, "broadcast_type", "text"),
                                 !.broadcast_text = DictGet(d, "broadcast_text", ""),
                                 !.broadcast_photo = DictGet(d, "broadcast_photo", "none"),
                                 !.users = all_users]
                    /\ out' = {[Msg(ADMIN_CHAT_ID, "progress", None) EXCEPT
                                  !.total = Len(all_users)]}
            /\ UNCHANGED conv
    /\ ev' = Event(data, u, HasRow(users, u), NoUserId, "none", "none")
    /\ RegUnchanged
    /\ UNCHANGED <<context_user_data, boot>>

\* "for user_id in users: try: ... except Exception": the exception of one
\* turn is caught inside the loop, which goes on with the next recipient
AfterAttemptAbort(i, total_users, sendOk) == IF sendOk THEN i + 1 ELSE total_users
AfterAttempt(i, total_users, sendOk) == i + 1

\* one turn of the loop of broadcast_confirm
BroadcastSend ==
    /\ job.pc = "sending"
    /\ job.i < Len(job.users)
    /\ LET i == job.i + 1
           user_id == job.users[i]
           total_users == Len(job.users)
           how == IF job.broadcast_type = "photo" /\ job.broadcast_photo # "none"
                  THEN "send_photo" ELSE "send_message"
       IN \E sendOk, editOk \in BOOLEAN :
            IF ~sendOk
            THEN /\ job' = [job EXCEPT
                              !.i = AfterAttempt(job.i, total_users, sendOk),
                              !.fail_count = @ + 1,
                              !.log = Append(@, [to |-> user_id, how |-> how, ok |-> FALSE])]
                 /\ out' = {}
            ELSE IF ~ProgressDue(i, total_users)
            THEN /\ job' = [job EXCEPT
                              !.i = AfterAttempt(job.i, total_users, sendOk),
                              !.success_count = @ + 1,
                              !.log = Append(@, [to |-> user_id, how |-> how, ok |-> TRUE])]
                 /\ out' = {}
            ELSE IF editOk
            THEN /\ job' = [job EXCEPT
                              !.i = AfterAttempt(job.i, total_users, sendOk),
                              !.success_count = @ + 1,
                              !.edits = @ \cup {i},
                              !.log = Append(@, [to |-> user_id, how |-> how, ok |-> TRUE])]
                 /\ out' = {[Msg(ADMIN_CHAT_ID, "progress", None) EXCEPT !.total = i]}
            ELSE /\ job' = [job EXCEPT
                              !.i = AfterAttempt(job.i, total_users, sendOk),
                              !.success_count = @ + 1,
                              !.fail_count = @ + 1,
                              !.log = Append(@, [to |-> user_id, how |-> how, ok |-> TRUE])]
                 /\ out' = {}
    /\ ev' = Event("broadcast_send", job.by, FALSE, job.users[job.i + 1], "none", "none")
    /\ RegUnchanged
    /\ UNCHANGED <<events, conv, context_user_data, boot>>

\* broadcast_confirm after the loop
BroadcastFinish ==
    /\ job.pc = "sending"
    /\ job.i = Len(job.users)
    /\ job' = [job EXCEPT !.pc = "done",
                          !.percent = Percent(job.success_count, Len(job.users))]
    /\ out' = {[Msg(ADMIN_CHAT_ID, "report", None) EXCEPT !.total = Len(job.users)]}
    /\ context_user_data' = [context_user_data EXCEPT ![job.by] = NoData]
    /\ conv' = [conv EXCEPT ![job.by] = END]
    /\ ev' = Event("broadcast_finish", job.by, FALSE, NoUserId, "none", "none")
    /\ RegUnchanged
    /\ UNCHANGED <<events, boot>>

\* stats
Stats(u) ==
    /\ events < MaxUpdates
    /\ events' = events + 1
    /\ IF ~IsAdmin(u)
       THEN out' = {Msg(u, "admin_only", None)}
       ELSE \E dbok \in BOOLEAN :
              out' = {[Msg(u, "stats", None) EXCEPT
                         !.total = get_stats(users, dbok),
                         !.shows = IF is_connected THEN {"sheets_ok"}
                                   ELSE {"sheets_down"}]}
    /\ ev' = Event("stats", u, HasRow(users, u), NoUserId, "none", "none")
    /\ RegUnchanged
    /\ UNCHANGED <<conv, context_user_data, job, boot>>

\* the table users as a run finds it: the rows of earlier runs
PhoneOf(u) == IF u = 42 THEN <<"+", "7">>
              ELSE IF u = 10042 THEN <<"+", "8">> ELSE <<"+", "9">>
StoredRows(ids) ==
    {[user_id |-> u, phone |-> PhoneOf(u), registered_at |-> 0,
      coupon_code |-> CouponCode(u)] : u \in ids}

BInit ==
    /\ \E ids \in SUBSET AllUsers :
         /\ users = StoredRows(ids)
         /\ firstCoupon = [u \in AllUsers |-> IF u \in ids THEN CouponCode(u) ELSE None]
    /\ sheet = << >>
    /\ is_connected \in BOOLEAN
    /\ tasks = EmptyBag
    /\ events = 0
    /\ confirmed = {}
    /\ ev = Event("init", NoUserId, FALSE, NoUserId, "none", "none")
    /\ out = {}
    /\ conv = [u \in AllUsers |-> END]
    /\ context_user_data = [u \in AllUsers |-> NoData]
    /\ job = NoJob
    /\ boot = Booted

Choices == {"cancel", "text", "photo", "other"}
CallbackData == {"confirm_broadcast", "cancel_broadcast"}

BNext ==
    \/ \E u \in AllUsers : BroadcastStart(u)
    \/ \E u \in AllUsers, choice \in Choices : BroadcastText(u, choice)
    \/ \E u \in AllUsers : BroadcastCancel(u)
    \/ \E u \in AllUsers, data \in CallbackData : BroadcastConfirm(u, data)
    \/ BroadcastSend
    \/ BroadcastFinish
    \/ \E u \in AllUsers : Stats(u)
    \/ \E u \in AllUsers : events < MaxUpdates /\ HandleContact(u, u, PhoneOf(u))
    \/ \E t \in Suspended : HandleContactNotify(t)

BSpec == BInit /\ [][BNext]_vars

\* the loop is one coroutine: after every await the event loop resumes it
BFairSpec == BSpec /\ WF_vars(BroadcastSend) /\ WF_vars(BroadcastFinish)

\* ------------------------------------------------- dispatch of the updates
\* ApplicationBuilder().token(BOT_TOKEN).build(): no concurrent_updates and
\* blocking handlers, so the application awaits the handler of one update to
\* its return before it takes the next update; broadcast_confirm awaits its
\* whole loop
Dispatchable == tasks = EmptyBag /\ job.pc # "sending"

SeqStart(u) == Dispatchable /\ events < MaxUpdates /\ Start(u)
SeqCheckSubscription(u) == Dispatchable /\ events < MaxUpdates /\ CheckSubscription(u)
SeqHandleContact(u) ==
    Dispatchable /\ events < MaxUpdates /\ HandleContact(u, u, PhoneOf(u))

SeqNext ==
    \/ \E u \in AllUsers : SeqStart(u)
    \/ \E u \in AllUsers : SeqCheckSubscription(u)
    \/ \E t \in Suspended : CheckSubscriptionLookup(t)
    \/ \E t \in Suspended : CheckSubscriptionResult(t)
    \/ \E u \in AllUsers : SeqHandleContact(u)
    \/ \E t \in Suspended : HandleContactNotify(t)
    \/ \E u \in AllUsers : Dispatchable /\ BroadcastStart(u)
    \/ \E u \in AllUsers, choice \in Choices : Dispatchable /\ BroadcastText(u, choice)
    \/ \E u \in AllUsers : Dispatchable /\ BroadcastCancel(u)
    \/ \E u \in AllUsers, data \in CallbackData : Dispatchable /\ BroadcastConfirm(u, data)
    \/ BroadcastSend
    \/ BroadcastFinish
    \/ \E u \in AllUsers : Dispatchable /\ Stats(u)

SeqSpec == BInit /\ [][SeqNext]_vars

\* ------------------------------------------------------------- start-up
\* the names load_dotenv() and the environment may define
EnvNames == {"BOT_TOKEN", "CHANNEL_USERNAME", "ADMIN_CHAT_ID", "SPREADSHEET_URL"}

\* the process at the import of the module: env holds the names with a
\* non-empty value, credentials tells whether the file credentials.json exists
BootInit ==
    /\ \E env \in SUBSET EnvNames, credentials \in BOOLEAN :
         boot = [pc |-> "user_manager", env |-> env, credentials |-> credentials,
                 missing |-> << >>, gateway |-> FALSE]
    /\ users = {}
    /\ sheet = << >>
    /\ is_connected = FALSE
    /\ tasks = EmptyBag
    /\ events = 0
    /\ confirmed = {}
    /\ firstCoupon = [u \in AllUsers |-> None]
    /\ ev = Event("init", NoUserId, FALSE, NoUserId, "none", "none")
    /\ out = {}
    /\ conv = [u \in AllUsers |-> END]
    /\ context_user_data = [u \in AllUsers |-> NoData]
    /\ job = NoJob

BootUnchanged ==
    UNCHANGED <<users, sheet, tasks, events, confirmed, firstCoupon, ev, out,
                conv, context_user_data, job>>

\* user_manager = UserManager(): setup_database logs its failure and returns
ConstructUserManager ==
    /\ boot.pc = "user_manager"
    /\ boot' = [boot EXCEPT !.pc = "gsheets_manager"]
    /\ UNCHANGED is_connected
    /\ BootUnchanged

\* gsheets_manager = GoogleSheetsManager(): setup_gsheets returns False without
\* the file credentials.json or without SPREADSHEET_URL, and on every exception
ConstructSheetsManager ==
    /\ boot.pc = "gsheets_manager"
    /\ boot' = [boot EXCEPT !.pc = "main"]
    /\ \E reached \in BOOLEAN :
         is_connected' = (/\ boot.credentials
                          /\ "SPREADSHEET_URL" \in boot.env
                          /\ reached)
    /\ BootUnchanged

\* main up to application.run_polling()
Main ==
    /\ boot.pc = "main"
    /\ LET missing_vars == MissingVars(RequiredVars, boot.env)
       IN IF missing_vars # << >>
          THEN boot' = [boot EXCEPT !.pc = "aborted", !.missing = missing_vars]
          ELSE boot' = [boot EXCEPT !.pc = "polling", !.gateway = TRUE]
    /\ UNCHANGED is_connected
    /\ BootUnchanged

BootNext ==
    \/ ConstructUserManager
    \/ ConstructSheetsManager
    \/ Main

BootSpec == BootInit /\ [][BootNext]_vars

\* ================================================================ claims
CouponMessages(msgs, u) == {m \in msgs : m.to = u /\ m.kind = "coupon"}
ContactTasks(bag, u) ==
    CopiesIn(Task("handle_contact", u, "notify", TRUE), bag)
    + CopiesIn(Task("handle_contact", u, "notify", FALSE), bag)
StoredCoupon(tbl, u) == (CHOOSE r \in RowsOf(tbl, u) : TRUE).coupon_code
Triggers == {"start", "check_subscription", "handle_contact"}

\* C1: in every reachable state the store holds at most one record per
\* participant_id, and the coupon_code stored for a participant_id is the one
\* that was written with its first record.
C1_OneRecordStableCoupon ==
    \A u \in Users :
      /\ Cardinality(RowsOf(users, u)) <= 1
      /\ \A r \in RowsOf(users, u) : r.coupon_code = firstCoupon[u]

\* a record written again for an identity that had one already
C1_Witness ==
    /\ ev.h = "handle_contact" /\ ev.enrolled /\ ev.reg = "ok"
    /\ HasRow(users, ev.user)
    /\ firstCoupon[ev.user] # None

\* C2: registration is idempotent per participant: there is never more than
\* one record per participant, and whenever an already-enrolled participant
\* triggers /start, check_subscription or a contact share, the participant is
\* shown the stored coupon and the step writes nothing to the store, appends no
\* lead row and starts no operator notification.
C2_IdempotentRegistration ==
    /\ [](\A u \in Users : Cardinality(RowsOf(users, u)) <= 1)
    /\ [][\A u \in Users :
            (ev'.h \in Triggers /\ ev'.user = u /\ HasRow(users, u))
            => /\ users' = users
               /\ sheet' = sheet
               /\ out' = {Msg(u, "existing_coupon", StoredCoupon(users, u))}
               /\ ContactTasks(tasks', u) <= ContactTasks(tasks, u)]_vars

\* C3: a record once created is never deleted and its phone, registered_at and
\* coupon_code never change through a later event of another participant, a
\* valid contact share with the same normalized phone included: after it both
\* participants have their record.
C3_RecordNeverDeletedOrChanged ==
    [][\A r \in users : ev'.user # r.user_id => r \in users']_vars

\* C4: two contact shares of one identity end in exactly one record with one
\* coupon for it: there is never a second record, a handler whose write
\* succeeded leaves exactly one record, holding the coupon it presents, and no
\* handler is ever suspended between its is_enrolled test and its write.
C4_ConcurrentSharesOneRecord ==
    /\ [](\A u \in Users : Cardinality(RowsOf(users, u)) <= 1)
    /\ [](\A t \in Suspended : t.h = "handle_contact" => t.pc = "notify")
    /\ [][\A u \in Users :
            (ev'.h = "handle_contact" /\ ev'.user = u /\ ev'.reg = "ok")
            => /\ Cardinality(RowsOf(users', u)) = 1
               /\ CouponMessages(out', u) # {}
               /\ \A m \in CouponMessages(out', u) :
                    m.coupon = StoredCoupon(users', u)]_vars

\* a second share of an identity handled while the handler of its first share
\* is still suspended
C4_Witness ==
    /\ ev.h = "handle_contact" /\ ev.enrolled /\ ev.cu = ev.user
    /\ ContactTasks(tasks, ev.user) >= 1
    /\ Cardinality(RowsOf(users, ev.user)) = 1

\* C5: a record exists only for a participant whose check_subscription was
\* answered by the gateway with member, administrator or creator.
C5_RecordOnlyAfterSubscription ==
    \A r \in users : r.user_id \in confirmed

\* C6: a contact share of a participant without a record whose card carries
\* another identity only re-prompts: no record, no lead row, no coupon shown,
\* no operator notification started.
C6_ForeignContactChangesNothing ==
    [][\A u \in Users :
         (ev'.h = "handle_contact" /\ ev'.user = u /\ ~HasRow(users, u)
            /\ ev'.cu # u)
         => /\ users' = users
            /\ sheet' = sheet
            /\ tasks' = tasks
            /\ firstCoupon' = firstCoupon
            /\ out' = {Msg(u, "own_number_please", None)}]_vars

C6_Witness ==
    /\ ev.h = "handle_contact" /\ ~ev.enrolled
    /\ ev.cu \in Users /\ ev.cu # ev.user
    /\ out = {Msg(ev.user, "own_number_please", None)}
    /\ ~HasRow(users, ev.user)

C8_SinkFailureNonFatal ==
    /\ [][is_connected' = is_connected]_vars
    /\ [][(ev'.h = "handle_contact" /\ ev'.reg # "none" /\ ~is_connected)
          => (ev'.lead = "skipped" /\ sheet' = sheet)]_vars
    /\ [][\A u \in Users :
            (ev'.h = "handle_contact" /\ ev'.user = u /\ ~HasRow(users, u)
               /\ ev'.reg = "ok")
            => /\ HasRow(users', u)
               /\ ev'.lead \in {"skipped", "raised", "appended"}
               /\ CouponMessages(out', u) # {}]_vars

C8_Witness ==
    /\ ~is_connected
    /\ ev.h = "handle_contact" /\ ~ev.enrolled /\ ev.reg = "ok"
    /\ ev.lead = "skipped"
    /\ HasRow(users, ev.user)
    /\ CouponMessages(out, ev.user) # {}
    /\ sheet = << >>

\* C9: whenever a lead row is appended, the store holds at that moment a
\* record of the row's participant with the row's coupon.
C9_LeadOnlyForEnrolled ==
    [][Len(sheet') > Len(sheet) =>
         \E r \in users' : /\ r.user_id = sheet'[Len(sheet')].user_id
                           /\ r.coupon_code = sheet'[Len(sheet')].coupon]_vars

\* C10: every coupon stored or presented for identity P is PIT-, then P mod
\* 10000 as exactly four decimal digits, then -15; identities congruent modulo
\* 10000 hold the same code.
DigitValue(ch) == CHOOSE d \in 0..9 : DigitChars[d + 1] = ch
IsCouponOf(c, P) ==
    /\ Len(c) = 11
    /\ SubSeq(c, 1, 4) = <<"P", "I", "T", "-">>
    /\ SubSeq(c, 9, 11) = <<"-", "1", "5">>
    /\ \A i \in 5..8 : \E d \in 0..9 : DigitChars[d + 1] = c[i]
    /\ 1000 * DigitValue(c[5]) + 100 * DigitValue(c[6])
         + 10 * DigitValue(c[7]) + DigitValue(c[8]) = P % 10000
C10_CouponDerivation ==
    /\ \A r \in users : IsCouponOf(r.coupon_code, r.user_id)
    /\ \A m \in out : m.kind = "coupon" => IsCouponOf(m.coupon, m.to)
    /\ \A i \in 1..Len(sheet) : IsCouponOf(sheet[i].coupon, sheet[i].user_id)
    /\ \A r, q \in users :
         r.user_id % 10000 = q.user_id % 10000 => r.coupon_code = q.coupon_code

\* two identities congruent modulo 10000 enrolled with the same code
C10_Witness ==
    \E r, q \in users : /\ r.user_id # q.user_id
                        /\ r.user_id % 10000 = q.user_id % 10000
                        /\ r.coupon_code = q.coupon_code

\* C11: for every participant, get_user_coupon answers None in every state
\* before the record is created and the coupon of the first record in every
\* state after it, and is_user_registered answers true exactly when
\* get_user_coupon answers a coupon (stated for lookups that reach the store).
C11_CouponForStable ==
    \A u \in Users :
      /\ firstCoupon[u] = None => get_user_coupon(users, u, TRUE) = None
      /\ firstCoupon[u] # None => get_user_coupon(users, u, TRUE) = firstCoupon[u]
      /\ is_user_registered(users, u, TRUE) <=> get_user_coupon(users, u, TRUE) # None

\* C12: for a store that holds a record, a lookup that fails answers something
\* other than the negative result: is_user_registered not False,
\* get_user_coupon not None, get_stats not 0, get_all_users not the empty list.
C12_LookupFailureDistinct ==
    \A r \in users :
      /\ is_user_registered(users, r.user_id, FALSE) # FALSE
      /\ get_user_coupon(users, r.user_id, FALSE) # None
      /\ get_stats(users, FALSE) # 0
      /\ get_all_users(users, FALSE) # << >>

\* C20: every notification of a new lead sent to the operator shows the name,
\* the phone, the handle or its placeholder, the identity, the coupon, the
\* sink flag and the running total, with and without a handle.
SummaryFields == {"name", "phone", "handle", "identity", "coupon", "sheets", "total"}
C20_NotificationHasSevenFields ==
    \A m \in out : m.kind = "new_lead" => m.shows = SummaryFields

\* C13: /broadcast from an identity other than the operator is answered with
\* the operator-only message alone, the conversation of that identity stays
\* idle and no data of a broadcast is created or changed; /stats from such an
\* identity is answered the same way.
C13_NonOperatorRejected ==
    [][(ev'.h \in {"broadcast_start", "stats"} /\ ev'.user # ADMIN_CHAT_ID) =>
         /\ out' = {Msg(ev'.user, "admin_only", None)}
         /\ conv' = conv
         /\ conv'[ev'.user] = END
         /\ context_user_data' = context_user_data
         /\ job' = job]_vars

\* a non-operator was just refused /broadcast
C13_Witness ==
    /\ ev.h = "broadcast_start"
    /\ ev.user # ADMIN_CHAT_ID
    /\ out = {Msg(ev.user, "admin_only", None)}
    /\ conv[ev.user] = END

\* C14: a confirm_broadcast or cancel_broadcast callback or a /cancel from an
\* identity other than the operator never starts the sending, never leads to
\* a message to a participant and never changes the data of a broadcast.
C14_NonOperatorNeverStartsSending ==
    [][(/\ ev'.h \in {"confirm_broadcast", "cancel_broadcast", "broadcast_cancel"}
        /\ ev'.user # ADMIN_CHAT_ID) =>
         /\ job' = job
         /\ context_user_data' = context_user_data]_vars

\* C15: the fan-out attempts the identities of its snapshot once each, in the
\* order of the snapshot and one per turn, whatever sends fail; the snapshot
\* does not change while sending, so identities enrolled later are not sent
\* to; and a fan-out that is sending reaches the final report.
AttemptsFollowSnapshot ==
    /\ Len(job.log) = job.i
    /\ job.i <= Len(job.users)
    /\ \A k \in 1..Len(job.log) : job.log[k].to = job.users[k]
    /\ job.pc = "done" => Len(job.log) = Len(job.users)
C15_FanOutCoversSnapshot ==
    /\ []AttemptsFollowSnapshot
    /\ [][job.pc = "sending" =>
            /\ job'.users = job.users
            /\ Len(job'.log) \in {Len(job.log), Len(job.log) + 1}
            /\ SubSeq(job'.log, 1, Len(job.log)) = job.log]_vars
    /\ (job.pc = "sending") ~> (job.pc = "done")

\* a fan-out is done whose first send failed and a later one succeeded, while
\* an identity enrolled after the snapshot is in the store
C15_Witness ==
    /\ job.pc = "done"
    /\ Len(job.log) >= 2
    /\ ~job.log[1].ok
    /\ job.log[2].ok
    /\ \E r \in users : \A k \in 1..Len(job.users) : job.users[k] # r.user_id

\* C16: after the i-th recipient success_count + fail_count = i,
\* success_count is the number of sends that succeeded and fail_count the
\* number of sends that raised, also when an update of the progress message
\* fails; at the end their sum is the number of recipients.
Sent(log, ok) == Cardinality({k \in 1..Len(log) : log[k].ok = ok})
C16_CountersExact ==
    /\ job.success_count + job.fail_count = job.i
    /\ job.success_count = Sent(job.log, TRUE)
    /\ job.fail_count = Sent(job.log, FALSE)
    /\ job.pc = "done" => job.success_count + job.fail_count = Len(job.users)

\* C17: the percentage of the final report, in tenths of a percent, is the
\* tenth nearest to success_count / total_users * 100 when there are
\* recipients and 0 when there are none, and lies between 0 and 100 percent.
C17_PercentRounded ==
    job.pc = "done" =>
      LET total_users == Len(job.users)
          exact == job.success_count * 1000
          diff == job.percent * total_users - exact
      IN /\ total_users = 0 => job.percent = 0
         /\ total_users > 0 => 2 * diff <= total_users /\ -2 * diff <= total_users
         /\ job.percent \in 0..1000

\* a report for three recipients, two of them reached: 66.7
C17_Witness ==
    /\ job.pc = "done"
    /\ Len(job.users) = 3
    /\ job.success_count = 2
    /\ job.percent = 667

\* C19, as claimed: the process reaches the gateway only with the four names
\* and the service credential file present, and aborts when any of the five
\* is missing.
C19_AbortsOnAnyOfFive ==
    /\ boot.pc = "polling" => boot.env = EnvNames /\ boot.credentials
    /\ boot.pc \in {"aborted", "polling"} =>
         (boot.pc = "aborted" <=> (boot.env # EnvNames \/ ~boot.credentials))

\* C19, amended: main aborts exactly when one of BOT_TOKEN, CHANNEL_USERNAME,
\* ADMIN_CHAT_ID and SPREADSHEET_URL is missing, the diagnostic lists exactly
\* the missing ones, once each, and no connection to the gateway is made; with
\* the four present the process reaches the gateway, and a missing file
\* credentials.json only leaves the sink disconnected.
C19_AbortsOnMissingVars ==
    /\ boot.pc \in {"aborted", "polling"} =>
         (boot.pc = "aborted" <=> boot.env # EnvNames)
    /\ boot.pc = "aborted" =>
         /\ Range(boot.missing) = EnvNames \ boot.env
         /\ Len(boot.missing) = Cardinality(EnvNames \ boot.env)
    /\ boot.gateway => boot.pc = "polling" /\ boot.env = EnvNames
    /\ boot.pc = "polling" => boot.gateway
    /\ (boot.pc = "polling" /\ ~boot.credentials) => ~is_connected

\* start-up aborted for the missing operator identity alone
C19_Witness ==
    /\ boot.pc = "aborted"
    /\ boot.missing = <<"ADMIN_CHAT_ID">>
    /\ ~boot.gateway

\* C18: while a fan-out is sending and has recipients left, the application
\* can handle a /start, a check_subscription or a contact share of another
\* participant.
C18_FanOutDoesNotBlock ==
    (job.pc = "sending" /\ job.i < Len(job.users) /\ events < MaxUpdates) =>
      \E u \in AllUsers \ {job.by} :
        \/ ENABLED SeqStart(u)
        \/ ENABLED SeqCheckSubscription(u)
        \/ ENABLED SeqHandleContact(u)

\* C21: the end of a check_subscription of a participant who is not enrolled
\* prompts for the contact when the gateway answers member, administrator or
\* creator, prompts again to subscribe for any other status, reports an error
\* when the query fails, and leaves the table users as it is; for a
\* participant who is enrolled, check_subscription shows the stored coupon
\* and does not go on to the query of the gateway.
C21_CheckSubscriptionOutcomes ==
    [][/\ ev'.h = "cs_result" =>
            /\ users' = users
            /\ ev'.reg \in {"member", "administrator", "creator"} =>
                 out' = {Msg(ev'.user, "subscribed", None),
                         Msg(ev'.user, "share_contact", None)}
            /\ ev'.reg \in Statuses \ {"member", "administrator", "creator"} =>
                 out' = {Msg(ev'.user, "not_subscribed", None)}
            /\ ev'.reg = "error" => out' = {Msg(ev'.user, "check_failed", None)}
       /\ (ev'.h = "check_subscription" /\ HasRow(users, ev'.user)) =>
            /\ users' = users
            /\ out' = {Msg(ev'.user, "existing_coupon", StoredCoupon(users, ev'.user))}
            /\ \A t \in BagToSet(tasks') :
                 ~(t.h = "check_subscription" /\ t.user = ev'.user /\ t.pc = "querying")
      ]_vars

\* C22: in the state BROADCAST_TEXT the reply of the operator selects the
\* next state: a chosen kind is recorded as broadcast_type and the form goes
\* on to BROADCAST_PHOTO, the cancel choice ends the form, any other reply is
\* answered with the prompt again and leaves state and data as they are.
C22_ModeSelectTransitions ==
    [][ev'.h = "broadcast_text" =>
         /\ ev'.reg \in {"text", "photo"} =>
              /\ conv'[ev'.user] = BROADCAST_PHOTO
              /\ context_user_data'[ev'.user].broadcast_type = ev'.reg
         /\ ev'.reg = "cancel" => conv'[ev'.user] = END
         /\ ev'.reg = "other" =>
              /\ conv' = conv
              /\ context_user_data' = context_user_data
              /\ out' = {Msg(ev'.user, "invalid_choice", None)}]_vars

\* C23: a preview of a photo broadcast is sent only with a photo stored, no
\* fan-out of the kind photo runs without a photo, and once the operator has
\* picked the text-only kind the next text message of the operator gets the
\* preview.
TextPreview(u) ==
    /\ BroadcastPhoto(u, "text")
    /\ \E m \in out' : m.kind = "preview" /\ m.to = u
C23_ContentCollectOrder ==
    /\ \A m \in out :
         (m.kind = "preview" /\ context_user_data[m.to].broadcast_type = "photo") =>
           context_user_data[m.to].broadcast_photo # "unset"
    /\ (job.pc = "sending" /\ job.broadcast_type = "photo") =>
         job.broadcast_photo # "none"
    /\ (ev.h = "broadcast_text" /\ ev.reg = "text" /\ events < MaxEvents) =>
         ENABLED TextPreview(ev.user)

\* C24: after the turn for recipient number i the progress message is edited
\* exactly when i is a multiple of ten or the number of recipients, whether
\* the send of that turn succeeded or raised (turns whose edit itself raised
\* are left aside).
EditRaised == job'.success_count > job.success_count /\ job'.fail_count > job.fail_count
C24_ProgressEveryTenthAndLast ==
    [][(ev'.h = "broadcast_send" /\ ~EditRaised) =>
         /\ (job'.i % 10 = 0 \/ job'.i = Len(job'.users)) <=> job'.i \in job'.edits
         /\ job'.edits \ {job'.i} = job.edits]_vars

\* C25: the data of a broadcast in context.user_data is gone after the final
\* report, after the cancel choice in BROADCAST_TEXT, after cancel_broadcast
\* and after /cancel, and a cancellation starts no fan-out; a fan-out starts
\* only from a confirm_broadcast of an identity whose data holds a collected
\* text.
Cancellation ==
    \/ ev'.h \in {"cancel_broadcast", "broadcast_cancel"}
    \/ ev'.h = "broadcast_text" /\ ev'.reg = "cancel"
C25_JobDataLifetime ==
    [][/\ (Cancellation \/ ev'.h = "broadcast_finish") =>
            context_user_data'[ev'.user] = NoData
       /\ Cancellation => job' = job
       /\ (job'.pc = "sending" /\ job.pc # "sending") =>
            /\ ev'.h = "confirm_broadcast"
            /\ context_user_data[ev'.user].broadcast_text # "unset"
            /\ job'.broadcast_text = context_user_data[ev'.user].broadcast_text
      ]_vars

\* C26: no two rows of users hold the same phone and every stored phone
\* begins with "+"; a write for one identity with a phone stored under another
\* identity removes the row of the other, and get_stats does not grow by it.
C26_PhoneUniqueAndPrefixed ==
    /\ [](\A r, q \in users : r.phone = q.phone => r = q)
    /\ [](\A r \in users : Len(r.phone) > 0 /\ r.phone[1] = "+")
    /\ [][\A r \in users, q \in users' :
            (r.user_id # q.user_id /\ r.phone = q.phone) =>
              /\ r \notin users'
              /\ q.user_id = ev'.user
              /\ get_stats(users', TRUE) <= get_stats(users, TRUE)]_vars

\* a contact share has just replaced the row of another identity that held
\* the same phone
C26_Witness ==
    /\ ev.h = "handle_contact"
    /\ HasRow(users, ev.user)
    /\ \E u \in Users \ {ev.user} :
         /\ firstCoupon[u] # None
         /\ ~HasRow(users, u)
    /\ get_stats(users, TRUE) = 1

====
